---- MODULE Spec2Model ----
(***************************************************************************)
(* The Tuya integration of Home Assistant                                  *)
(* (homeassistant/components/tuya/__init__.py): bring-up and teardown of a *)
(* config entry on the event loop, the DeviceListener callbacks that the   *)
(* push session (TuyaOpenMQ) runs on its transport thread, and the         *)
(* async_remove_device jobs those callbacks hand to the event loop.        *)
(*                                                                         *)
(* Two execution contexts interleave.  The event loop runs                 *)
(* async_setup_entry, async_unload_entry and the queued jobs; a job can    *)
(* only run while the coroutine in progress is suspended at an await.  The *)
(* transport thread runs one listener callback at a time and interleaves   *)
(* with the event loop statement by statement.                             *)
(***************************************************************************)
EXTENDS Integers, Sequences, FiniteSets, TLC

\* ------------------------------------------------------------------ bounds

\* Inbound push messages the device manager hands to the listener in a run.
MaxMessages == 2

\* ------------------------------------------------------------ the universe

\* const.DOMAIN, the provider tag of this integration's registry identifiers.
TUYA_DOMAIN == "tuya"
OTHER_DOMAIN == "other"

\* Device identities (TuyaDevice.id).
Devices == {"A", "B"}

\* entry.entry_id of the config entry being set up, and of another config
\* entry of the same integration that may already sit in hass.data[DOMAIN].
ThisEntry == "entry"
OtherEntry == "other_entry"

\* TuyaOpenMQ instances: one made by bring-up, one more by each add_device.
SessionIds == 1 .. (MaxMessages + 1)

\* An identifier of a device-registry entry: <<provider tag, identity>>.
\* The registry may hold this integration's identifier of every device and
\* one identifier of another provider.
Identifiers == ({TUYA_DOMAIN} \X Devices) \cup {<<OTHER_DOMAIN, "A">>}

\* A device-registry entry is its (non-empty) set of identifiers; the
\* registry never holds one identifier on two entries.
RegistryContents ==
    {r \in SUBSET (SUBSET Identifiers \ {{}}) :
        \A e1 \in r : \A e2 \in r : e1 # e2 => e1 \cap e2 = {}}

\* Dispatcher signals: TUYA_DISCOVERY_NEW carrying [id], and
\* TUYA_HA_SIGNAL_UPDATE_ENTITY_<id>.
SignalKeys == {"TUYA_DISCOVERY_NEW", "TUYA_HA_SIGNAL_UPDATE_ENTITY"} \X Devices

VARIABLES
    setupPc,        \* position of async_setup_entry / _init_tuya_sdk
    setupResult,    \* "none", "True", "False" or "raised"
    unloadPc,       \* position of async_unload_entry
    unloadResult,   \* "none", "True" or "False"
    hass_data,      \* hass.data: is DOMAIN a key, and the keys under it
    mqState,        \* per TuyaOpenMQ instance: "none", "active", "stopped"
    mqListeners,    \* instances with device_manager.on_message registered
    mq,             \* device_manager.mq (0 before the manager exists)
    device_listeners, \* the DeviceListener is attached to the manager
    device_ids,     \* DeviceListener.device_ids
    device_map,     \* device_manager.device_map (its keys)
    registry,       \* device registry: a set of entries
    deleted_devices, \* entries the registry was told to remove
    entities,       \* registry entries that have entities attached
    jobs,           \* async_remove_device jobs queued on the event loop
    dispatched,     \* how many times each signal was sent
    thread,         \* the transport thread: callback, argument, locals
    delivered       \* inbound messages handed to the listener so far

vars == <<setupPc, setupResult, unloadPc, unloadResult, hass_data, mqState,
          mqListeners, mq, device_listeners, device_ids, device_map, registry,
          deleted_devices, entities, jobs, dispatched, thread, delivered>>

eventLoopVars == <<setupPc, setupResult, unloadPc, unloadResult>>

Idle == [pc |-> "idle", id |-> "-", tuya_mq |-> 0]

ActiveSessions == {s \in SessionIds : mqState[s] = "active"}

\* ------------------------------------------------------- helper operators

\* TuyaOpenMQ.stop(): the session ends and its message listeners are dropped;
\* stopping a session that is not running changes nothing.
mq_stop(s) ==
    /\ mqState' = [mqState EXCEPT ![s] = IF @ = "active" THEN "stopped" ELSE @]
    /\ mqListeners' = mqListeners \ {s}

\* TuyaOpenMQ(api) followed by .start(): a fresh instance, running.
NewSession ==
    CHOOSE s \in SessionIds :
        mqState[s] = "none" /\ \A t \in SessionIds : t < s => mqState[t] # "none"

dispatcher_send(key) == dispatched' = [dispatched EXCEPT ![key] = @ + 1]

\* The inner loop without the provider-tag test.
HasStaleIdentifier_any_tag(device_entry, map) ==
    \E item \in device_entry : item[2] \notin map

\* The inner loop of cleanup_device_registry: some identifier of the entry
\* carries DOMAIN and an identity that is not a key of device_map.
HasStaleIdentifier(device_entry, map) ==
    \E item \in device_entry : TUYA_DOMAIN = item[1] /\ item[2] \notin map

\* The outer loop left at the first removal, as if the break ended it too.
RECURSIVE cleanup_loop_first_only(_, _, _)
cleanup_loop_first_only(todo, devices, map) ==
    IF todo = {} THEN devices
    ELSE LET device_entry == CHOOSE e \in todo : TRUE
         IN  IF HasStaleIdentifier(device_entry, map)
             THEN devices \ {device_entry}
             ELSE cleanup_loop_first_only(todo \ {device_entry}, devices, map)

\* The outer loop, over a snapshot of the registry's entries.
RECURSIVE cleanup_loop(_, _, _)
cleanup_loop(todo, devices, map) ==
    IF todo = {} THEN devices
    ELSE LET device_entry == CHOOSE e \in todo : TRUE
         IN  cleanup_loop(todo \ {device_entry},
                          IF HasStaleIdentifier(device_entry, map)
                          THEN devices \ {device_entry}
                          ELSE devices,
                          map)

cleanup_device_registry(devices, map) == cleanup_loop(devices, devices, map)

\* device_registry.async_get_device(identifiers={(DOMAIN, device_id)}):
\* the entries holding that identifier (none or one).
async_get_device(devices, device_id) ==
    {e \in devices : <<TUYA_DOMAIN, device_id>> \in e}

\* The event loop is between callbacks: no coroutine of the integration is
\* in the middle of a run of statements without an await.
EventLoopFree ==
    /\ setupPc \in {"s83", "s115", "done"}
    /\ unloadPc \in {"u140", "done"}

\* ------------------------------------------------------------------- Init

Init ==
    /\ setupPc = "s51"
    /\ setupResult = "none"
    /\ unloadPc = "u140"
    /\ unloadResult = "none"
    /\ \E others \in {{}, {OtherEntry}} :
          hass_data = [bucket |-> others # {}, entries |-> others]
    /\ mqState = [s \in SessionIds |-> "none"]
    /\ mqListeners = {}
    /\ mq = 0
    /\ device_listeners = FALSE
    /\ device_ids = {}
    /\ device_map = {}
    /\ registry \in RegistryContents
    /\ deleted_devices = {}
    /\ entities \in SUBSET {device_entry \in registry :
                               \E item \in device_entry : item[1] = TUYA_DOMAIN}
    /\ jobs = <<>>
    /\ dispatched = [k \in SignalKeys |-> 0]
    /\ thread = Idle
    /\ delivered = 0

\* ------------------------------------------------- bring-up (event loop)

\* line 51: hass.data.setdefault(DOMAIN, {})
async_setup_entry_51 ==
    /\ setupPc = "s51"
    /\ hass_data' = [hass_data EXCEPT !.bucket = TRUE]
    /\ setupPc' = "s83"
    /\ UNCHANGED <<setupResult, unloadPc, unloadResult, mqState, mqListeners,
                   mq, device_listeners, device_ids, device_map, registry,
                   deleted_devices, entities, jobs, dispatched, thread,
                   delivered>>

\* lines 72-97: api.connect in the executor; an unsuccessful response makes
\* _init_tuya_sdk return False.
init_tuya_sdk_83 ==
    /\ setupPc = "s83"
    /\ \E success \in BOOLEAN :
          setupPc' = IF success THEN "s99" ELSE "s62"
    /\ UNCHANGED <<setupResult, unloadPc, unloadResult, hass_data, mqState,
                   mqListeners, mq, device_listeners, device_ids, device_map,
                   registry, deleted_devices, entities, jobs, dispatched,
                   thread, delivered>>

\* lines 99-100: tuya_mq = TuyaOpenMQ(api); tuya_mq.start()
init_tuya_sdk_99 ==
    /\ setupPc = "s99"
    /\ mqState' = [mqState EXCEPT ![NewSession] = "active"]
    /\ setupPc' = "s102"
    /\ UNCHANGED <<setupResult, unloadPc, unloadResult, hass_data,
                   mqListeners, mq, device_listeners, device_ids, device_map,
                   registry, deleted_devices, entities, jobs, dispatched,
                   thread, delivered>>

\* lines 102-106: the empty device_ids, the device manager (which registers
\* its on_message with the session it is given) and the listener, attached.
init_tuya_sdk_102 ==
    /\ setupPc = "s102"
    /\ \E s \in ActiveSessions :
          /\ mq' = s
          /\ mqListeners' = mqListeners \cup {s}
    /\ device_ids' = {}
    /\ device_listeners' = TRUE
    /\ setupPc' = "s108"
    /\ UNCHANGED <<setupResult, unloadPc, unloadResult, hass_data, mqState,
                   device_map, registry, deleted_devices, entities, jobs,
                   dispatched, thread, delivered>>

\* lines 108-112: hass.data[DOMAIN][entry.entry_id] = HomeAssistantTuyaData(...)
init_tuya_sdk_108 ==
    /\ setupPc = "s108"
    /\ hass_data' = [hass_data EXCEPT !.entries = @ \cup {ThisEntry}]
    /\ setupPc' = "s115"
    /\ UNCHANGED <<setupResult, unloadPc, unloadResult, mqState, mqListeners,
                   mq, device_listeners, device_ids, device_map, registry,
                   deleted_devices, entities, jobs, dispatched, thread,
                   delivered>>

\* line 115: home_manager.update_device_cache in the executor replaces the
\* directory wholesale, or fails, and the failure leaves async_setup_entry
\* as an exception.
init_tuya_sdk_115 ==
    /\ setupPc = "s115"
    /\ \/ \E fetched \in SUBSET Devices :
             /\ device_map' = fetched
             /\ setupPc' = "s116"
             /\ UNCHANGED setupResult
       \/ /\ setupPc' = "done"
          /\ setupResult' = "raised"
          /\ UNCHANGED device_map
    /\ UNCHANGED <<unloadPc, unloadResult, hass_data, mqState, mqListeners,
                   mq, device_listeners, device_ids, registry,
                   deleted_devices, entities, jobs, dispatched, thread,
                   delivered>>

\* line 116: await cleanup_device_registry(hass, device_manager)
init_tuya_sdk_116 ==
    /\ setupPc = "s116"
    /\ registry' = cleanup_device_registry(registry, device_map)
    /\ deleted_devices' = deleted_devices \cup (registry \ registry')
    /\ entities' = entities \cap registry'
    /\ setupPc' = "s119"
    /\ UNCHANGED <<setupResult, unloadPc, unloadResult, hass_data, mqState,
                   mqListeners, mq, device_listeners, device_ids, device_map,
                   jobs, dispatched, thread, delivered>>

\* lines 118-123 and 62-68: device_ids is seeded from device_map, the
\* platforms are set up, _init_tuya_sdk returns True and so does
\* async_setup_entry.
init_tuya_sdk_119 ==
    /\ setupPc = "s119"
    /\ device_ids' = device_ids \cup device_map
    /\ setupPc' = "done"
    /\ setupResult' = "True"
    /\ UNCHANGED <<unloadPc, unloadResult, hass_data, mqState, mqListeners,
                   mq, device_listeners, device_map, registry,
                   deleted_devices, entities, jobs, dispatched, thread,
                   delivered>>

\* lines 62-68 after _init_tuya_sdk returned False:
\* hass.data[DOMAIN].pop(entry.entry_id) raises KeyError when the key is not
\* there; otherwise the entry is dropped, the bucket too when it is left
\* empty, and False is returned.
async_setup_entry_62 ==
    /\ setupPc = "s62"
    /\ IF ThisEntry \in hass_data.entries
       THEN /\ hass_data' = [bucket  |-> hass_data.entries \ {ThisEntry} # {},
                             entries |-> hass_data.entries \ {ThisEntry}]
            /\ setupResult' = "False"
       ELSE /\ setupResult' = "raised"
            /\ UNCHANGED hass_data
    /\ setupPc' = "done"
    /\ UNCHANGED <<unloadPc, unloadResult, mqState, mqListeners, mq,
                   device_listeners, device_ids, device_map, registry,
                   deleted_devices, entities, jobs, dispatched, thread,
                   delivered>>

\* ------------------------------------------------- teardown (event loop)

\* async_unload_entry with the session stopped before the platform unload is
\* consulted.
async_unload_entry_140_stop_first ==
    /\ unloadPc = "u140"
    /\ setupPc = "done"
    /\ setupResult = "True"
    /\ mq_stop(mq)
    /\ \E unload \in BOOLEAN :
          IF unload
          THEN unloadPc' = "u143" /\ UNCHANGED unloadResult
          ELSE unloadPc' = "done" /\ unloadResult' = "False"
    /\ UNCHANGED <<setupPc, setupResult, hass_data, mq, device_listeners,
                   device_ids, device_map, registry, deleted_devices,
                   entities, jobs, dispatched, thread, delivered>>

\* line 140: await hass.config_entries.async_unload_platforms(...); when it
\* reports failure async_unload_entry returns False.
async_unload_entry_140 ==
    /\ unloadPc = "u140"
    /\ setupPc = "done"
    /\ setupResult = "True"
    /\ \E unload \in BOOLEAN :
          IF unload
          THEN unloadPc' = "u143" /\ UNCHANGED unloadResult
          ELSE unloadPc' = "done" /\ unloadResult' = "False"
    /\ UNCHANGED <<setupPc, setupResult, hass_data, mqState, mqListeners, mq,
                   device_listeners, device_ids, device_map, registry,
                   deleted_devices, entities, jobs, dispatched, thread,
                   delivered>>

\* lines 142-143: hass_data.device_manager.mq.stop()
async_unload_entry_143 ==
    /\ unloadPc = "u143"
    /\ mq_stop(mq)
    /\ unloadPc' = "u144"
    /\ UNCHANGED <<setupPc, setupResult, unloadResult, hass_data, mq,
                   device_listeners, device_ids, device_map, registry,
                   deleted_devices, entities, jobs, dispatched, thread,
                   delivered>>

\* line 144: device_manager.remove_device_listener(hass_data.device_listener)
async_unload_entry_144 ==
    /\ unloadPc = "u144"
    /\ device_listeners' = FALSE
    /\ unloadPc' = "u146"
    /\ UNCHANGED <<setupPc, setupResult, unloadResult, hass_data, mqState,
                   mqListeners, mq, device_ids, device_map, registry,
                   deleted_devices, entities, jobs, dispatched, thread,
                   delivered>>

\* lines 146-150: the entry is popped, the bucket too when it is left empty,
\* and unload (True) is returned.
async_unload_entry_146 ==
    /\ unloadPc = "u146"
    /\ hass_data' = [bucket  |-> hass_data.entries \ {ThisEntry} # {},
                     entries |-> hass_data.entries \ {ThisEntry}]
    /\ unloadPc' = "done"
    /\ unloadResult' = "True"
    /\ UNCHANGED <<setupPc, setupResult, mqState, mqListeners, mq,
                   device_listeners, device_ids, device_map, registry,
                   deleted_devices, entities, jobs, dispatched, thread,
                   delivered>>

\* --------------------------------------------- queued jobs (event loop)

\* lines 197-207: the job at the head of the queue runs.  When the registry
\* holds an entry with the identifier (DOMAIN, device_id) that entry is
\* removed and device_id is discarded from device_ids; otherwise nothing.
async_remove_device ==
    /\ EventLoopFree
    /\ jobs # <<>>
    /\ LET device_id    == Head(jobs).id
           device_entry == async_get_device(registry, device_id)
       IN  IF device_entry # {}
           THEN /\ registry' = registry \ device_entry
                /\ deleted_devices' = deleted_devices \cup device_entry
                /\ entities' = entities \ device_entry
                /\ device_ids' = device_ids \ {device_id}
           ELSE UNCHANGED <<registry, deleted_devices, entities,
                            device_ids>>
    /\ jobs' = Tail(jobs)
    /\ UNCHANGED <<eventLoopVars, hass_data, mqState, mqListeners, mq,
                   device_listeners, device_map, dispatched, thread,
                   delivered>>

\* ------------------------------------------------------ transport thread

\* A running session with the device manager's on_message registered hands
\* an inbound message to the manager, which keeps device_map current and
\* calls the attached listener: update_device for a device of the map,
\* add_device for a newly bound device, which it puts in the map, and
\* remove_device for a device of the map, which it deletes from it.
on_message ==
    /\ thread.pc = "idle"
    /\ delivered < MaxMessages
    /\ device_listeners
    /\ \E s \in ActiveSessions : s \in mqListeners
    /\ \E d \in Devices :
          \/ /\ d \in device_map
             /\ thread' = [Idle EXCEPT !.pc = "l169", !.id = d]
             /\ UNCHANGED device_map
          \/ /\ device_map' = device_map \cup {d}
             /\ thread' = [Idle EXCEPT !.pc = "l180", !.id = d]
          \/ /\ d \in device_map
             /\ device_map' = device_map \ {d}
             /\ thread' = [Idle EXCEPT !.pc = "l195", !.id = d]
    /\ delivered' = delivered + 1
    /\ UNCHANGED <<eventLoopVars, hass_data, mqState, mqListeners, mq,
                   device_listeners, device_ids, registry, deleted_devices,
                   entities, jobs, dispatched>>

\* lines 167-175: a signal keyed by the identity, when it is in device_ids.
\* The argument of the debug log, device_manager.device_map[device.id].status,
\* is evaluated first: when the directory no longer has the key (the refresh
\* of line 115 replaced it meanwhile) the lookup raises KeyError and the
\* callback ends without a signal.
update_device ==
    /\ thread.pc = "l169"
    /\ IF thread.id \in device_ids /\ thread.id \in device_map
       THEN dispatcher_send(<<"TUYA_HA_SIGNAL_UPDATE_ENTITY", thread.id>>)
       ELSE UNCHANGED dispatched
    /\ thread' = Idle
    /\ UNCHANGED <<eventLoopVars, hass_data, mqState, mqListeners, mq,
                   device_listeners, device_ids, device_map, registry,
                   deleted_devices, entities, jobs, delivered>>

\* line 180: self.hass.add_job(self.async_remove_device, device.id)
add_device_180 ==
    /\ thread.pc = "l180"
    /\ jobs' = Append(jobs, [id |-> thread.id, by |-> "add_device"])
    /\ thread' = [thread EXCEPT !.pc = "l182"]
    /\ UNCHANGED <<eventLoopVars, hass_data, mqState, mqListeners, mq,
                   device_listeners, device_ids, device_map, registry,
                   deleted_devices, entities, dispatched, delivered>>

\* line 182: self.device_ids.add(device.id)
add_device_182 ==
    /\ thread.pc = "l182"
    /\ device_ids' = device_ids \cup {thread.id}
    /\ thread' = [thread EXCEPT !.pc = "l183"]
    /\ UNCHANGED <<eventLoopVars, hass_data, mqState, mqListeners, mq,
                   device_listeners, device_map, registry, deleted_devices,
                   entities, jobs, dispatched, delivered>>

\* add_device without the new-device signal.
add_device_183_no_signal ==
    /\ thread.pc = "l183"
    /\ thread' = [thread EXCEPT !.pc = "l186"]
    /\ UNCHANGED <<eventLoopVars, hass_data, mqState, mqListeners, mq,
                   device_listeners, device_ids, device_map, registry,
                   deleted_devices, entities, jobs, dispatched, delivered>>

\* line 183: dispatcher_send(self.hass, TUYA_DISCOVERY_NEW, [device.id])
add_device_183 ==
    /\ thread.pc = "l183"
    /\ dispatcher_send(<<"TUYA_DISCOVERY_NEW", thread.id>>)
    /\ thread' = [thread EXCEPT !.pc = "l186"]
    /\ UNCHANGED <<eventLoopVars, hass_data, mqState, mqListeners, mq,
                   device_listeners, device_ids, device_map, registry,
                   deleted_devices, entities, jobs, delivered>>

\* add_device with the old session left running.
add_device_186_no_stop ==
    /\ thread.pc = "l186"
    /\ thread' = [thread EXCEPT !.pc = "l187"]
    /\ UNCHANGED <<eventLoopVars, hass_data, mqState, mqListeners, mq,
                   device_listeners, device_ids, device_map, registry,
                   deleted_devices, entities, jobs, dispatched, delivered>>

\* lines 185-186: device_manager.mq.stop()
add_device_186 ==
    /\ thread.pc = "l186"
    /\ mq_stop(mq)
    /\ thread' = [thread EXCEPT !.pc = "l187"]
    /\ UNCHANGED <<eventLoopVars, hass_data, mq, device_listeners, device_ids,
                   device_map, registry, deleted_devices, entities, jobs,
                   dispatched, delivered>>

\* lines 187-188: tuya_mq = TuyaOpenMQ(device_manager.api); tuya_mq.start()
\* No try/except surrounds the two statements: when the start fails the
\* exception leaves add_device, with lines 190-191 not run (pc "raised").
add_device_187 ==
    /\ thread.pc = "l187"
    /\ \/ /\ mqState' = [mqState EXCEPT ![NewSession] = "active"]
          /\ thread' = [thread EXCEPT !.pc = "l190", !.tuya_mq = NewSession]
       \/ /\ thread' = [thread EXCEPT !.pc = "raised"]
          /\ UNCHANGED mqState
    /\ UNCHANGED <<eventLoopVars, hass_data, mqListeners, mq,
                   device_listeners, device_ids, device_map, registry,
                   deleted_devices, entities, jobs, dispatched, delivered>>

\* line 190: device_manager.mq = tuya_mq
add_device_190 ==
    /\ thread.pc = "l190"
    /\ mq' = thread.tuya_mq
    /\ thread' = [thread EXCEPT !.pc = "l191"]
    /\ UNCHANGED <<eventLoopVars, hass_data, mqState, mqListeners,
                   device_listeners, device_ids, device_map, registry,
                   deleted_devices, entities, jobs, dispatched, delivered>>

\* line 191: tuya_mq.add_message_listener(device_manager.on_message); return
add_device_191 ==
    /\ thread.pc = "l191"
    /\ mqListeners' = mqListeners \cup {thread.tuya_mq}
    /\ thread' = Idle
    /\ UNCHANGED <<eventLoopVars, hass_data, mqState, mq, device_listeners,
                   device_ids, device_map, registry, deleted_devices,
                   entities, jobs, dispatched, delivered>>

\* lines 193-195: self.hass.add_job(self.async_remove_device, device_id)
remove_device ==
    /\ thread.pc = "l195"
    /\ jobs' = Append(jobs, [id |-> thread.id, by |-> "remove_device"])
    /\ thread' = Idle
    /\ UNCHANGED <<eventLoopVars, hass_data, mqState, mqListeners, mq,
                   device_listeners, device_ids, device_map, registry,
                   deleted_devices, entities, dispatched, delivered>>

\* ------------------------------------------------------------------ Next

Next ==
    \/ async_setup_entry_51
    \/ init_tuya_sdk_83
    \/ init_tuya_sdk_99
    \/ init_tuya_sdk_102
    \/ init_tuya_sdk_108
    \/ init_tuya_sdk_115
    \/ init_tuya_sdk_116
    \/ init_tuya_sdk_119
    \/ async_setup_entry_62
    \/ async_unload_entry_140
    \/ async_unload_entry_143
    \/ async_unload_entry_144
    \/ async_unload_entry_146
    \/ async_remove_device
    \/ on_message
    \/ update_device
    \/ add_device_180
    \/ add_device_182
    \/ add_device_183
    \/ add_device_186
    \/ add_device_187
    \/ add_device_190
    \/ add_device_191
    \/ remove_device

Spec == Init /\ [][Next]_vars

\* ---------------------------------------------------------------- claims

StoppedSessions == {s \in SessionIds : mqState[s] = "stopped"}

\* C1: no duplicate sessions.  In every reachable state at most one push
\* session is started and not stopped: add_device stops the old session
\* before it starts the new one, so no restart sees two active sessions.
C1_NoDuplicateSessions == Cardinality(ActiveSessions) <= 1

\* Two add events have each replaced the session and no teardown has begun:
\* two sessions are stopped and the third is running.
C1_Witness ==
    /\ Cardinality(StoppedSessions) = 2
    /\ Cardinality(ActiveSessions) = 1
    /\ unloadPc = "u140"
    /\ thread.pc = "idle"

\* C2: session count at quiescence.  Exactly one push session is active when
\* an add_device call returns, and none is active once async_unload_entry has
\* returned True, however the two calls interleave.
C2_SessionCountAtQuiescence ==
    [][ /\ (thread.pc = "l191" /\ thread'.pc = "idle")
            => Cardinality(ActiveSessions') = 1
        /\ unloadResult' = "True" => ActiveSessions' = {} ]_vars

\* C3: add/remove race resolution.  After bring-up, when the job scheduled by
\* remove_device(X) runs after an add_device(X) that began later (its own job
\* is still queued behind) and X is in device_ids, the removal has no effect:
\* X's registry entry stays and X is still in device_ids.
C3_AddRemoveRace ==
    [][ ( /\ setupResult = "True"
          /\ jobs # <<>>
          /\ jobs' = Tail(jobs)
          /\ Head(jobs).by = "remove_device"
          /\ \E i \in 2 .. Len(jobs) :
                jobs[i] = [id |-> Head(jobs).id, by |-> "add_device"]
          /\ Head(jobs).id \in device_ids )
        => /\ registry' = registry
           /\ Head(jobs).id \in device_ids' ]_vars

\* C4: exactly-once local routing.  An update_device call for an identity
\* that is in device_ids sends one signal, keyed by that identity, and no
\* other signal.
C4_ExactlyOnceRouting ==
    [][ (thread.pc = "l169" /\ thread'.pc = "idle" /\ thread.id \in device_ids)
        => dispatched' =
              [dispatched EXCEPT
                  ![<<"TUYA_HA_SIGNAL_UPDATE_ENTITY", thread.id>>] = @ + 1] ]_vars

TuyaIdentities(device_entry) ==
    {item[2] : item \in {i \in device_entry : i[1] = TUYA_DOMAIN}}

PruneStep == setupPc = "s116" /\ setupPc' = "s119"

C7_PruneIsolation ==
    [][ PruneStep
        => \A e \in registry : \A item \in e :
              item[1] # TUYA_DOMAIN => \E e2 \in registry' : item \in e2 ]_vars

\* C8: idempotent pruning.  A second cleanup_device_registry run right after
\* the first, against the same device_map, removes nothing.
C8_PruneIdempotent ==
    [][ PruneStep
        => cleanup_device_registry(registry', device_map') = registry' ]_vars

\* The first run removed two entries and left one in place.
C8_Witness ==
    /\ setupPc = "s119"
    /\ delivered = 0
    /\ Cardinality(deleted_devices) = 2
    /\ registry # {}

\* C9: atomic bring-up failure.  When bring-up does not succeed,
\* async_setup_entry returns False, hass.data holds neither this entry nor
\* an empty DOMAIN bucket, and no push session is active.
C9_AtomicBringUpFailure ==
    (setupPc = "done" /\ setupResult # "True")
    => /\ setupResult = "False"
       /\ ThisEntry \notin hass_data.entries
       /\ hass_data.bucket => hass_data.entries # {}
       /\ ActiveSessions = {}

\* C10: teardown ordering.  The handle is released from hass.data only after
\* the session was stopped and the listener detached, so once unload has
\* released it no session is active and the listener is not attached.
C10_TeardownOrdering ==
    (unloadResult = "True" /\ ThisEntry \notin hass_data.entries)
    => /\ ActiveSessions = {}
       /\ ~ device_listeners

\* The event loop runs the job at the head of the queue.
JobRuns == jobs # <<>> /\ jobs' = Tail(jobs)

\* C11: deferred removal completes.  When the job scheduled by
\* remove_device(X) runs and no add event for X has arrived since (no job of
\* an add_device(X) is queued behind it and none is about to be queued), X is
\* not in device_ids afterwards, whatever the registry holds.
C11_DeferredRemovalCompletes ==
    [][ ( /\ JobRuns
          /\ Head(jobs).by = "remove_device"
          /\ \A i \in 2 .. Len(jobs) :
                jobs[i] # [id |-> Head(jobs).id, by |-> "add_device"]
          /\ ~ (thread.id = Head(jobs).id /\ thread.pc = "l180") )
        => Head(jobs).id \notin device_ids' ]_vars

\* C12: single-owner mutation.  device_ids and the device manager's session
\* (stop, start, device_manager.mq) change only in steps of the event loop:
\* no step of a listener callback on the transport thread changes them.
C12_SingleOwnerMutation ==
    [][ (device_ids' # device_ids \/ mqState' # mqState \/ mq' # mq)
        => thread' = thread ]_vars

\* C13: prune precedes live events.  Until bring-up has pruned the registry
\* and seeded device_ids, no inbound message has been handed to the listener
\* and no listener callback is running.
C13_PrunePrecedesLiveEvents ==
    setupResult = "none" => (delivered = 0 /\ thread.pc = "idle")

\* C15: no message loss across restart.  During the session replacement in
\* add_device the new session is never running without the device manager's
\* on_message registered as its message listener.
C15_NoMessageLossAcrossRestart ==
    (thread.pc \in {"l190", "l191"} /\ thread.tuya_mq \in ActiveSessions)
    => thread.tuya_mq \in mqListeners

\* C16: work dropped at teardown.  Once async_unload_entry has torn the entry
\* down, a job that was still queued changes neither device_ids nor the
\* device registry when it runs.
C16_WorkDroppedAtTeardown ==
    [][ (JobRuns /\ unloadResult = "True")
        => UNCHANGED <<device_ids, registry>> ]_vars

\* C18: seeding after successful bring-up.  When async_setup_entry returns
\* True, device_ids is exactly the set of keys of device_map and every
\* identity of this provider left in the registry is in device_ids.
C18_SeedingAfterBringUp ==
    [][ (setupResult = "none" /\ setupResult' = "True")
        => /\ device_ids' = device_map'
           /\ \A e \in registry' : TuyaIdentities(e) \subseteq device_ids' ]_vars

\* C19: add sticks.  When the job that add_device(X) scheduled for itself
\* runs in steady state after the call has put X in device_ids (line 182 is
\* behind it), X is still in device_ids afterwards, whatever the registry
\* holds.
C19_AddSticks ==
    [][ ( /\ JobRuns
          /\ setupResult = "True"
          /\ Head(jobs).by = "add_device"
          /\ Head(jobs).id \in device_ids
          /\ ~ (thread.id = Head(jobs).id /\ thread.pc = "l182") )
        => Head(jobs).id \in device_ids' ]_vars

\* C20: failed unload changes nothing.  When the platform unload reports
\* failure, async_unload_entry returns False and the push session, the device
\* listener and the hass.data entry of this config entry are as they were:
\* session active, listener attached, entry in place.
C20_FailedUnloadChangesNothing ==
    [][ (unloadPc = "u140" /\ unloadPc' # "u140" /\ unloadPc' # "u143")
        => /\ unloadResult' = "False"
           /\ UNCHANGED <<mqState, mqListeners, mq, device_listeners,
                          hass_data>>
           /\ device_listeners'
           /\ ThisEntry \in hass_data'.entries ]_vars

\* async_unload_entry has returned False with the session still running.
C20_Witness ==
    /\ unloadResult = "False"
    /\ unloadPc = "done"
    /\ mq \in ActiveSessions
    /\ device_listeners
    /\ ThisEntry \in hass_data.entries

C14_PruneRespectsDependents ==
    [][ PruneStep => (registry \ registry') \cap entities = {} ]_vars

====
